---- MODULE Spec2Model ----
(***************************************************************************)
(* The notifier's event hub (dispatcher/hub/commonHub.go): the hub loop,   *)
(* its five unbuffered inbound channels, the dispatcher map, and the       *)
(* collaborators it calls (subscription mapper, event filter, dispatcher). *)
(***************************************************************************)
EXTENDS Integers, Sequences, FiniteSets, TLC

\* ------------------------------------------------------------------ bounds
MaxSubs == 2
MaxBatchLen == 2

\* ------------------------------------------------------------- data model
None == "none"
NoDisp == "nodisp"

\* dispatcher IDs (uuid.UUID) and dispatcher objects; d1 and d1b share id1
IDs == {"id1", "id2"}
Disp == {"d1", "d1b", "d2"}

\* EventDispatcher.GetID
GetID(d) == IF d = "d2" THEN "id2" ELSE "id1"

\* data.Event values offered by the producers
Events ==
  { [address |-> "erd1x", identifier |-> "transfer", topics |-> <<"T1", "T2">>],
    [address |-> "erd1y", identifier |-> "swap", topics |-> <<"T3">>] }

\* data.BlockEvents.Events: ordered sequences of events
Batches == UNION { [1..n -> Events] : n \in 0..MaxBatchLen }

\* SubscriptionEntry values a subscriber may send
Entries ==
  { [address |-> None, identifier |-> None, topics |-> <<>>, eventType |-> "ALL"],
    [address |-> "erd1x", identifier |-> "transfer", topics |-> <<"T2">>, eventType |-> "BLOCK_EVENTS"],
    [address |-> None, identifier |-> None, topics |-> <<>>, eventType |-> "REVERT_EVENTS"] }

\* the run goroutines that Run may start
Loops == {1, 2}

VARIABLES
  dispatchers,   \* wh.dispatchers: ID -> dispatcher object, NoDisp when absent
  subs,          \* subscriptionMapper: the subscriptions [DispatcherID, entry] it holds
  inflight,      \* calls blocked on a send to one of the five channels
  cancelFunc,    \* wh.cancelFunc: 0 is nil, n the cancel of the n-th context
  ctxDone,       \* contexts whose Done channel is closed
  loopPc,        \* per run goroutine: "none", "select", "stopped"
  last,          \* the step taken last, with what the hub saw in it
  work,          \* per run goroutine: the handleBroadcast call it is inside of
  ph,            \* the payloadHandler: its table dp, and the call made last
  pub            \* the rabbitMqPublisher: cfg, its channels, the message handled last

vars == <<dispatchers, subs, inflight, cancelFunc, ctxDone, loopPc, last, work, ph, pub>>

\* what the hub's atomic steps leave alone
others == <<work, ph, pub>>

\* payloadHandler.dp: the versions that have a data processor
dp == ph.dp

\* the ProcessPayload call made last, with its result
phLast == ph.last

\* rabbitMqPublisher.cfg: the three exchange names
cfg == pub.cfg

\* calls blocked on a send to one of the publisher's channels
pubIn == pub.in

\* the message the publisher loop handled last, with its calls
pubLast == pub.last

\* Close has cancelled a context
closeCalled == ctxDone # {}

EmptyPush == [d \in Disp |-> <<>>]

NoMsg == [kind |-> None, batch |-> <<>>, disp |-> NoDisp, src |-> None]

NoLast == [op |-> "none", loop |-> 0, msg |-> NoMsg, before |-> [i \in IDs |-> NoDisp],
           subsBefore |-> {}, pushed |-> EmptyPush, full |-> {}, routed |-> {},
           afterClose |-> FALSE, closed |-> {}, calls |-> {}]

\* the run goroutine is in no handleBroadcast call
NoWork == [msg |-> NoMsg, snapshot |-> {}]

\* no ProcessPayload call yet
NoCall == [topic |-> None, version |-> None, payload |-> None, table |-> {},
           err |-> "nil", calls |-> <<>>, returned |-> "nil", afterUnknown |-> FALSE]

\* a configuration with the three streams enabled
AllExchanges ==
  [events |-> "all_events", revert |-> "revert_events", finalized |-> "finalized_events"]

\* the publisher loop has handled no message yet
NoPublish == [stream |-> None, body |-> None, calls |-> <<>>, err |-> "nil",
              afterError |-> FALSE, afterSkipped |-> FALSE, running |-> TRUE]

\* ------------------------------------------------------------ event filter
\* filters.EventFilter.MatchEvent
HasTopic(e, t) == \E j \in 1..Len(e.topics) : e.topics[j] = t

MatchEvent(s, e) ==
  IF s.entry.eventType # "ALL" /\ s.entry.eventType # "BLOCK_EVENTS" THEN FALSE
  ELSE IF s.entry.address # None /\ s.entry.address # e.address THEN FALSE
  ELSE IF s.entry.identifier # None /\ s.entry.identifier # e.identifier THEN FALSE
  ELSE \A i \in 1..Len(s.entry.topics) : HasTopic(e, s.entry.topics[i])

\* ------------------------------------------------------ subscription mapper
\* The mapper's list holds no two structurally equal subscriptions, and the
\* hub's result does not depend on the list's order (the copies of one event
\* are equal), so the list is kept as the set of its elements.

\* SubscriptionMapper.MatchSubscribeEvent: one subscription per entry under the ID
MatchSubscribeEvent(ss, id, entries) ==
  ss \cup { [DispatcherID |-> id, entry |-> entries[i]] : i \in 1..Len(entries) }

\* SubscriptionMapper.RemoveSubscriptions
RemoveSubscriptions(ss, id) == { s \in ss : s.DispatcherID # id }

\* SubscriptionMapper.Subscriptions: a snapshot
Subscriptions == subs

\* ------------------------------------------------------- hub: Run, Close
\* commonHub.Run: a new context, its cancel stored in wh.cancelFunc, go wh.run(ctx)
Run ==
  /\ \E n \in Loops :
       /\ loopPc[n] = "none"
       /\ \A m \in Loops : m < n => loopPc[m] # "none"
       /\ cancelFunc' = n
       /\ loopPc' = [loopPc EXCEPT ![n] = "select"]
  /\ last' = [NoLast EXCEPT !.op = "run"]
  /\ UNCHANGED <<others, dispatchers, subs, inflight, ctxDone>>

\* the application starts its hub once
Start == cancelFunc = 0 /\ Run

\* the dispatchers that Close, or run on its way out, calls close() on: the
\* code has no such call
closeDispatchers(dm) == {}

\* a variant of Close that leaves the context alone
CloseWithoutCancel ==
  /\ last' = [NoLast EXCEPT !.op = "close", !.before = dispatchers]
  /\ UNCHANGED <<others, dispatchers, subs, inflight, cancelFunc, ctxDone, loopPc>>

\* commonHub.Close
Close ==
  /\ IF cancelFunc # 0
       THEN ctxDone' = ctxDone \cup {cancelFunc}
       ELSE UNCHANGED ctxDone
  /\ last' = [NoLast EXCEPT !.op = "close", !.before = dispatchers,
                            !.closed = closeDispatchers(dispatchers)]
  /\ UNCHANGED <<others, dispatchers, subs, inflight, cancelFunc, loopPc>>

\* run: case <-ctx.Done()
LoopStop(l) ==
  /\ loopPc[l] = "select"
  /\ l \in ctxDone
  /\ loopPc' = [loopPc EXCEPT ![l] = "stopped"]
  /\ last' = [NoLast EXCEPT !.op = "stop", !.loop = l, !.before = dispatchers,
                            !.closed = closeDispatchers(dispatchers)]
  /\ UNCHANGED <<others, dispatchers, subs, inflight, cancelFunc, ctxDone>>

\* ------------------------------------------------- callers of the hub API
Callers(fl) == {m \in fl : m.src = "caller"}

Msg(k, b, d, s) == [kind |-> k, batch |-> b, disp |-> d, src |-> s]

\* the client goroutine, one call at a time, enters one of Broadcast,
\* BroadcastRevert, BroadcastFinalized, RegisterEvent, UnregisterEvent and
\* blocks on the unbuffered channel send
Send(m) ==
  /\ Callers(inflight) = {}
  /\ inflight' = inflight \cup {m}
  /\ last' = [NoLast EXCEPT !.op = "send", !.msg = m, !.afterClose = closeCalled]
  /\ UNCHANGED <<others, dispatchers, subs, cancelFunc, ctxDone, loopPc>>

Broadcast == \E b \in Batches : Send(Msg("broadcast", b, NoDisp, "caller"))

BroadcastRevert == Send(Msg("revert", <<>>, NoDisp, "caller"))

BroadcastFinalized == Send(Msg("finalized", <<>>, NoDisp, "caller"))

RegisterEvent == \E d \in Disp : Send(Msg("register", <<>>, d, "caller"))

UnregisterEvent == \E d \in Disp : Send(Msg("unregister", <<>>, d, "caller"))

\* the SubscribeEvent payloads: a dispatcher ID and a list of one or two entries
EntryLists == UNION { [1..n -> Entries] : n \in {1, 2} }

\* commonHub.Subscribe: straight into the mapper, not through the loop
SubscribeWith(id, es) ==
  /\ Cardinality(MatchSubscribeEvent(subs, id, es)) <= MaxSubs
  /\ subs' = MatchSubscribeEvent(subs, id, es)
  /\ last' = [NoLast EXCEPT !.op = "subscribe", !.subsBefore = subs]
  /\ UNCHANGED <<others, dispatchers, inflight, cancelFunc, ctxDone, loopPc>>

Subscribe == \E id \in IDs, es \in EntryLists : SubscribeWith(id, es)

\* ------------------------------------------------------ hub loop handlers
\* the receive of a select case and the handler's run: the blocked sender
\* returns (the API gives it no error value)
Handled(l, m, op) ==
  [NoLast EXCEPT !.op = op, !.loop = l, !.msg = m, !.before = dispatchers,
                 !.subsBefore = subs, !.afterClose = closeCalled]

\* a variant that appends an event once per dispatcher
MapEventOnce(dmap, id, e) ==
  IF \E i \in 1..Len(dmap[id]) : dmap[id][i] = e THEN dmap
  ELSE [dmap EXCEPT ![id] = Append(@, e)]

\* handleBroadcast: mapEventToDispatcher
MapEventToDispatcher(dmap, id, e) == [dmap EXCEPT ![id] = Append(@, e)]

\* handleBroadcast: the inner loop over the subscriptions, for one event
RECURSIVE ForSubscriptions(_, _, _)
ForSubscriptions(dmap, ss, e) ==
  IF ss = {} THEN dmap
  ELSE LET s == CHOOSE x \in ss : TRUE
       IN ForSubscriptions(IF MatchEvent(s, e)
                             THEN MapEventToDispatcher(dmap, s.DispatcherID, e)
                             ELSE dmap,
                           ss \ {s}, e)

\* a variant that walks the events from the last to the first
RECURSIVE ForEventsBackwards(_, _, _)
ForEventsBackwards(dmap, events, ss) ==
  IF events = <<>> THEN dmap
  ELSE ForSubscriptions(ForEventsBackwards(dmap, Tail(events), ss), ss, Head(events))

\* handleBroadcast: the outer loop over blockEvents.Events
RECURSIVE ForEvents(_, _, _)
ForEvents(dmap, events, ss) ==
  IF events = <<>> THEN dmap
  ELSE ForEvents(ForSubscriptions(dmap, ss, Head(events)), Tail(events), ss)

\* handleBroadcast: dispatchersMap after the two loops
DispatchersMap(events, ss) == ForEvents([i \in IDs |-> <<>>], events, ss)

\* a variant that pushes to a dispatcher without looking it up in the map
PushPlanNoLookup(dmap, dm) == [d \in Disp |-> dmap[GetID(d)]]

\* handleBroadcast, under RLock: what PushEvents is called with on each
\* dispatcher object (<<>>: not called)
PushPlan(dmap, dm) ==
  [d \in Disp |-> IF dm[GetID(d)] = d THEN dmap[GetID(d)] ELSE <<>>]

\* the keys of dispatchersMap: an ID is a key once an event was appended
Keys(dmap) == { i \in IDs : dmap[i] # <<>> }

\* a variant that ranges over the registered dispatchers, matched or not
PushCallsPerRegistered(dmap, dm) ==
  { [disp |-> dm[i], events |-> dmap[i]] : i \in { k \in IDs : dm[k] # NoDisp } }

\* handleBroadcast, the range over dispatchersMap under RLock: the PushEvents
\* calls made, one for each key that is in wh.dispatchers
PushCalls(dmap, dm) ==
  { [disp |-> dm[i], events |-> dmap[i]] : i \in { k \in Keys(dmap) : dm[k] # NoDisp } }

\* Dispatcher.PushEvents never blocks: the batch lands in the outbound queue,
\* or the queue is full (F) and the dispatcher signals the hub to unregister
\* it, from its own goroutine, by UnregisterEvent
Signals(F) == { [kind |-> "unregister", batch |-> <<>>, disp |-> d, src |-> "dispatcher"] : d \in F }

\* case events := <-wh.broadcast: handleBroadcast(events)
HandleBroadcast(l) ==
  \E m \in inflight :
    /\ loopPc[l] = "select"
    /\ m.kind = "broadcast"
    /\ LET plan == PushPlan(DispatchersMap(m.batch, Subscriptions), dispatchers)
       IN \E F \in SUBSET {d \in Disp : plan[d] # <<>>} :
            /\ inflight' = (inflight \ {m}) \cup Signals(F)
            /\ last' = [Handled(l, m, "broadcast") EXCEPT
                          !.pushed = plan, !.full = F,
                          !.calls = PushCalls(DispatchersMap(m.batch, Subscriptions),
                                              dispatchers)]
    /\ UNCHANGED <<others, dispatchers, subs, cancelFunc, ctxDone, loopPc>>

\* handleRevertBroadcast: an empty body
HandleRevert(l) ==
  \E m \in inflight :
    /\ loopPc[l] = "select"
    /\ m.kind = "revert"
    /\ inflight' = inflight \ {m}
    /\ last' = Handled(l, m, "revert")
    /\ UNCHANGED <<others, dispatchers, subs, cancelFunc, ctxDone, loopPc>>

\* handleFinalizedBroadcast: an empty body
HandleFinalized(l) ==
  \E m \in inflight :
    /\ loopPc[l] = "select"
    /\ m.kind = "finalized"
    /\ inflight' = inflight \ {m}
    /\ last' = Handled(l, m, "finalized")
    /\ UNCHANGED <<others, dispatchers, subs, cancelFunc, ctxDone, loopPc>>

\* a variant that stores the dispatcher whether or not the ID is present
registerOverwrites(dm, d) == [dm EXCEPT ![GetID(d)] = d]

\* registerDispatcher
registerDispatcher(dm, d) ==
  IF dm[GetID(d)] # NoDisp THEN dm ELSE [dm EXCEPT ![GetID(d)] = d]

HandleRegister(l) ==
  \E m \in inflight :
    /\ loopPc[l] = "select"
    /\ m.kind = "register"
    /\ inflight' = inflight \ {m}
    /\ dispatchers' = registerDispatcher(dispatchers, m.disp)
    /\ last' = Handled(l, m, "register")
    /\ UNCHANGED <<others, subs, cancelFunc, ctxDone, loopPc>>

\* a variant that removes the subscriptions and leaves the map entry
unregisterKeepsEntry(dm, ss, d) ==
  [dispatchers |-> dm, subs |-> RemoveSubscriptions(ss, GetID(d))]

\* a variant that removes the subscriptions only of a dispatcher it found
unregisterFoundOnly(dm, ss, d) ==
  [dispatchers |-> [dm EXCEPT ![GetID(d)] = NoDisp],
   subs |-> IF dm[GetID(d)] # NoDisp THEN RemoveSubscriptions(ss, GetID(d)) ELSE ss]

\* a variant that makes the map anew instead of deleting the one entry
unregisterResetsMap(dm, ss, d) ==
  [dispatchers |-> [i \in IDs |-> NoDisp],
   subs |-> RemoveSubscriptions(ss, GetID(d))]

\* unregisterDispatcher: delete the map entry, RemoveSubscriptions
unregisterDispatcher(dm, ss, d) ==
  [dispatchers |-> [dm EXCEPT ![GetID(d)] = NoDisp],
   subs |-> RemoveSubscriptions(ss, GetID(d))]

\* unregisterDispatcher: the dispatchers it calls close() on; the body ends
\* with RemoveSubscriptions and has no such call
unregisterCloses(dm, d) == {}

\* case dispatcherClient := <-wh.unregister: unregisterDispatcher(dispatcherClient)
HandleUnregisterOf(l, m) ==
  /\ loopPc[l] = "select"
  /\ m \in inflight
  /\ m.kind = "unregister"
  /\ inflight' = inflight \ {m}
  /\ dispatchers' = unregisterDispatcher(dispatchers, subs, m.disp).dispatchers
  /\ subs' = unregisterDispatcher(dispatchers, subs, m.disp).subs
  /\ last' = [Handled(l, m, "unregister") EXCEPT
                !.closed = unregisterCloses(dispatchers, m.disp)]
  /\ UNCHANGED <<others, cancelFunc, ctxDone, loopPc>>

HandleUnregister(l) == \E m \in inflight : HandleUnregisterOf(l, m)

\* NewCommonHub
HubInit ==
  /\ dispatchers = [i \in IDs |-> NoDisp]
  /\ subs = {}
  /\ inflight = {}
  /\ cancelFunc = 0
  /\ ctxDone = {}
  /\ loopPc = [l \in Loops |-> "none"]
  /\ last = NoLast
  /\ work = [l \in Loops |-> NoWork]

\* the hub, next to a payload handler with the v1 data processor and a
\* publisher with its three exchanges, both at rest
Init ==
  /\ HubInit
  /\ ph = [dp |-> {"v1"}, last |-> NoCall]
  /\ pub = [cfg |-> AllExchanges, in |-> {}, last |-> NoPublish]

Next ==
  \/ Start
  \/ Close
  \/ Broadcast
  \/ BroadcastRevert
  \/ BroadcastFinalized
  \/ RegisterEvent
  \/ UnregisterEvent
  \/ Subscribe
  \/ \E l \in Loops : LoopStop(l)
  \/ \E l \in Loops : HandleBroadcast(l)
  \/ \E l \in Loops : HandleRevert(l)
  \/ \E l \in Loops : HandleFinalized(l)
  \/ \E l \in Loops : HandleRegister(l)
  \/ \E l \in Loops : HandleUnregister(l)

Spec == Init /\ [][Next]_vars

\* ------------------------------------------- the slow-subscriber setting
\* Subscribers that take every event (scenario S1's subscription), a producer
\* of one-event batches, and the register / unregister traffic.
EntryAll == [address |-> None, identifier |-> None, topics |-> <<>>, eventType |-> "ALL"]

SubscribeAll == \E id \in IDs : SubscribeWith(id, <<EntryAll>>)

BroadcastOne == \E e \in Events : Send(Msg("broadcast", <<e>>, NoDisp, "caller"))

LiveNext ==
  \/ Start
  \/ Close
  \/ BroadcastOne
  \/ RegisterEvent
  \/ UnregisterEvent
  \/ SubscribeAll
  \/ \E l \in Loops : LoopStop(l)
  \/ \E l \in Loops : HandleBroadcast(l)
  \/ \E l \in Loops : HandleRegister(l)
  \/ \E l \in Loops : HandleUnregister(l)

\* The select of run picks at random among the ready cases and a channel
\* serves its blocked senders first come first served, so a dispatcher's
\* pending unregister signal is received if the loop keeps selecting.
Signal(d) == Msg("unregister", <<>>, d, "dispatcher")

SignalFairness == \A l \in Loops, d \in Disp : WF_vars(HandleUnregisterOf(l, Signal(d)))

SpecLive == Init /\ [][LiveNext]_vars /\ SignalFairness

\* ------------------------------------------------- the loop's return
\* With ctx.Done() closed its case is ready at every select, and the select
\* picks at random among the ready cases: the case is taken in the end.
StopFairness == \A l \in Loops : WF_vars(LoopStop(l))

\* the slow-subscriber setting, with Run as often as it is called
StopNext ==
  \/ Run
  \/ Close
  \/ BroadcastOne
  \/ RegisterEvent
  \/ UnregisterEvent
  \/ SubscribeAll
  \/ \E l \in Loops : LoopStop(l)
  \/ \E l \in Loops : HandleBroadcast(l)
  \/ \E l \in Loops : HandleRegister(l)
  \/ \E l \in Loops : HandleUnregister(l)

SpecStop == Init /\ [][StopNext]_vars /\ StopFairness

\* ------------------------------------- the goroutines of the hub, step by step
\* handleBroadcast in its two parts, so that what the other goroutines do
\* while the loop is inside of it shows; Run as often as it is called.

\* handleBroadcast, the receive and line 111: the mapper's snapshot
BroadcastSnapshot(l) ==
  \E m \in inflight :
    /\ loopPc[l] = "select"
    /\ m.kind = "broadcast"
    /\ inflight' = inflight \ {m}
    /\ loopPc' = [loopPc EXCEPT ![l] = "matching"]
    /\ work' = [work EXCEPT ![l] = [msg |-> m, snapshot |-> Subscriptions]]
    /\ last' = Handled(l, m, "snapshot")
    /\ UNCHANGED <<dispatchers, subs, cancelFunc, ctxDone, ph, pub>>

\* handleBroadcast, lines 113 to 132: the match against the snapshot and the
\* pushes under RLock
BroadcastPush(l) ==
  /\ loopPc[l] = "matching"
  /\ LET plan == PushPlan(DispatchersMap(work[l].msg.batch, work[l].snapshot), dispatchers)
     IN \E F \in SUBSET {d \in Disp : plan[d] # <<>>} :
          /\ inflight' = inflight \cup Signals(F)
          /\ last' = [Handled(l, work[l].msg, "broadcast") EXCEPT
                        !.subsBefore = work[l].snapshot, !.pushed = plan, !.full = F,
                        !.calls = PushCalls(DispatchersMap(work[l].msg.batch,
                                                           work[l].snapshot),
                                            dispatchers)]
  /\ loopPc' = [loopPc EXCEPT ![l] = "select"]
  /\ work' = [work EXCEPT ![l] = NoWork]
  /\ UNCHANGED <<dispatchers, subs, cancelFunc, ctxDone, ph, pub>>

\* the goroutines that are in run
Alive == { l \in Loops : loopPc[l] \in {"select", "matching"} }

TasksNext ==
  \/ Run
  \/ Close
  \/ BroadcastOne
  \/ RegisterEvent
  \/ SubscribeAll
  \/ \E l \in Loops : LoopStop(l)
  \/ \E l \in Loops : BroadcastSnapshot(l)
  \/ \E l \in Loops : BroadcastPush(l)
  \/ \E l \in Loops : HandleRegister(l)
  \/ \E l \in Loops : HandleUnregister(l)

SpecTasks == Init /\ [][TasksNext]_vars

\* ---------------------------------------------------------- payload handler
\* process.payloadHandler: ProcessPayload looks the topic up in the actions
\* map, the decoding actions look the version up in the data processor table.

\* the errors declared by the package, and a data processor's own failure
NoErr == "nil"
ErrInvalidPayloadType == "invalid payload type"
ErrInvalidPayloadVersion == "invalid payload version"
ErrDataProcessor == "data processor error"

\* initActionsMap: the seven keys of ph.actions, three of them decoding
DecodingTopics == {"SaveBlock", "RevertIndexedBlock", "FinalizedBlock"}

Topics ==
  DecodingTopics \cup {"SaveRoundsInfo", "SaveValidatorsRating",
                       "SaveValidatorsPubKeys", "SaveAccounts"}

\* what the upstream node may send: topics (two of them unregistered),
\* versions, payloads
OfferedTopics == Topics \cup {"Settings", ""}

Versions == {"v0", "v1", "v3"}

Payloads == {"p1", "p2"}

\* NewPayloadHandler: a table with at least one data processor
Tables == SUBSET Versions \ {{}}

\* what a data processor call returns: nil or its error
DataProcessorResults == {NoErr, ErrDataProcessor}

Outcome(err, calls) == [err |-> err, calls |-> calls]

\* the body saveBlock, revertIndexedBlock and finalizedBlock share: the data
\* processor of the version, ErrInvalidPayloadType when the table has none;
\* each calls its own method of the data processor and returns its result r
decode(table, method, payload, version, r) ==
  IF version \notin table THEN Outcome(ErrInvalidPayloadType, <<>>)
  ELSE Outcome(r, <<[version |-> version, method |-> method, data |-> payload]>>)

saveBlock(table, payload, version, r) ==
  decode(table, "SaveBlock", payload, version, r)

revertIndexedBlock(table, payload, version, r) ==
  decode(table, "RevertIndexedBlock", payload, version, r)

\* a variant that hands the finalized block to SaveBlock
finalizedBlockSaves(table, payload, version, r) ==
  decode(table, "SaveBlock", payload, version, r)

finalizedBlock(table, payload, version, r) ==
  decode(table, "FinalizedBlock", payload, version, r)

\* saveRounds, saveValidatorsRating, saveValidatorsPubKeys, saveAccounts
ignore(payload, version) == Outcome(NoErr, <<>>)

\* ph.actions[topic], as initActionsMap fills it, called
action(table, payload, topic, version, r) ==
  CASE topic = "SaveBlock" -> saveBlock(table, payload, version, r)
    [] topic = "RevertIndexedBlock" -> revertIndexedBlock(table, payload, version, r)
    [] topic = "FinalizedBlock" -> finalizedBlock(table, payload, version, r)
    [] topic \in Topics \ DecodingTopics -> ignore(payload, version)

\* a variant that fails on a topic it has no action for
ProcessPayloadStrict(table, payload, topic, version, r) ==
  IF topic \notin Topics THEN Outcome(ErrInvalidPayloadType, <<>>)
  ELSE action(table, payload, topic, version, r)

\* payloadHandler.ProcessPayload; r is what the data processor returns if called
ProcessPayloadOf(table, payload, topic, version, r) ==
  IF topic \notin Topics THEN Outcome(NoErr, <<>>)
  ELSE action(table, payload, topic, version, r)

\* one frame from the node: ph.dp and ph.actions are only read
ProcessPayload ==
  \E payload \in Payloads, topic \in OfferedTopics, version \in Versions,
     r \in DataProcessorResults :
    LET out == ProcessPayloadOf(dp, payload, topic, version, r)
    IN /\ (out.calls = <<>> => r = NoErr)   \* no call, no result to choose
       /\ ph' = [ph EXCEPT !.last =
                   [topic |-> topic, version |-> version, payload |-> payload,
                    table |-> dp, err |-> out.err, calls |-> out.calls, returned |-> r,
                    afterUnknown |-> phLast.topic \in OfferedTopics \ Topics]]
       /\ UNCHANGED <<dispatchers, subs, inflight, cancelFunc, ctxDone, loopPc, last,
                      work, pub>>

PayloadInit ==
  /\ HubInit
  /\ ph \in [dp : Tables, last : {NoCall}]
  /\ pub = [cfg |-> AllExchanges, in |-> {}, last |-> NoPublish]

PayloadNext == ProcessPayload

SpecPayload == PayloadInit /\ [][PayloadNext]_vars

\* ----------------------------------------------------------------- publisher
\* rabbitmq.rabbitMqPublisher: Run's select over three unbuffered channels,
\* one publish method per channel, each guarded by its exchange name.
Streams == {"events", "revert", "finalized"}

Bodies == {"b1", "b2"}

PubMsgs == [stream : Streams, body : Bodies]

\* config.RabbitMQConfig: EventsExchange, RevertEventsExchange,
\* FinalizedEventsExchange, each named or empty
Configs ==
  [events : {"", "all_events"}, revert : {"", "revert_events"},
   finalized : {"", "finalized_events"}]

ErrMarshal == "marshal error"
ErrPublish == "publish error"

\* json.Marshal of the message
Marshal(m) == [json |-> m.stream, of |-> m.body]

\* publishFanout: client.Publish(exchangeName, emptyStr, true, false, Body: payload)
publishFanout(exchangeName, payload) ==
  [exchange |-> exchangeName, key |-> "", mandatory |-> TRUE, immediate |-> FALSE,
   body |-> payload]

Published(calls, err) == [calls |-> calls, err |-> err]

\* a variant that calls Publish again when it failed
publishRetries(exchangeName, m, marshalOk, publishOk) ==
  IF exchangeName = "" THEN Published(<<>>, NoErr)
  ELSE IF ~marshalOk THEN Published(<<>>, ErrMarshal)
  ELSE IF publishOk THEN Published(<<publishFanout(exchangeName, Marshal(m))>>, NoErr)
  ELSE Published(<<publishFanout(exchangeName, Marshal(m)),
                   publishFanout(exchangeName, Marshal(m))>>, ErrPublish)

\* a variant that publishes whatever the exchange name is
publishUnguarded(exchangeName, m, marshalOk, publishOk) ==
  IF ~marshalOk THEN Published(<<>>, ErrMarshal)
  ELSE Published(<<publishFanout(exchangeName, Marshal(m))>>,
                 IF publishOk THEN NoErr ELSE ErrPublish)

\* the body the three publish methods share: nothing when the exchange name
\* is empty; a marshal error returns; a Publish error is logged
publish(exchangeName, m, marshalOk, publishOk) ==
  IF exchangeName = "" THEN Published(<<>>, NoErr)
  ELSE IF ~marshalOk THEN Published(<<>>, ErrMarshal)
  ELSE Published(<<publishFanout(exchangeName, Marshal(m))>>,
                 IF publishOk THEN NoErr ELSE ErrPublish)

publishToExchanges(c, m, marshalOk, publishOk) ==
  publish(c.events, m, marshalOk, publishOk)

publishRevertToExchange(c, m, marshalOk, publishOk) ==
  publish(c.revert, m, marshalOk, publishOk)

publishFinalizedToExchange(c, m, marshalOk, publishOk) ==
  publish(c.finalized, m, marshalOk, publishOk)

\* rabbitMqPublisher.Broadcast, BroadcastRevert, BroadcastFinalized: the
\* stream's producer blocks on the unbuffered channel
PubSend ==
  \E m \in PubMsgs :
    /\ \A x \in pubIn : x.stream # m.stream
    /\ pub' = [pub EXCEPT !.in = pubIn \cup {m}]
    /\ UNCHANGED <<dispatchers, subs, inflight, cancelFunc, ctxDone, loopPc, last,
                   work, ph>>

\* Run: one pass of the for / select, the case of m's channel
PubHandleOf(m) ==
  /\ m \in pubIn
  /\ pubLast.running
  /\ \E marshalOk, publishOk \in BOOLEAN :
       LET out == CASE m.stream = "events" ->
                         publishToExchanges(cfg, m, marshalOk, publishOk)
                    [] m.stream = "revert" ->
                         publishRevertToExchange(cfg, m, marshalOk, publishOk)
                    [] m.stream = "finalized" ->
                         publishFinalizedToExchange(cfg, m, marshalOk, publishOk)
       IN /\ (out.calls = <<>> => publishOk)           \* no call, no result to choose
          /\ (out.err # ErrMarshal => marshalOk)
          /\ pub' = [pub EXCEPT
                       !.in = pubIn \ {m},
                       !.last = [stream |-> m.stream, body |-> m.body,
                                 calls |-> out.calls, err |-> out.err,
                                 afterError |-> pubLast.afterError \/ pubLast.err # NoErr,
                                 afterSkipped |-> \/ pubLast.afterSkipped
                                                  \/ (/\ pubLast.stream # None
                                                      /\ cfg[pubLast.stream] = ""),
                                 running |-> TRUE]]
  /\ UNCHANGED <<dispatchers, subs, inflight, cancelFunc, ctxDone, loopPc, last,
                 work, ph>>

PubHandle == \E m \in PubMsgs : PubHandleOf(m)

PubInit ==
  /\ HubInit
  /\ ph = [dp |-> {"v1"}, last |-> NoCall]
  /\ pub \in [cfg : Configs, in : {{}}, last : {NoPublish}]

PubNext == PubSend \/ PubHandle

\* a sender blocked on a channel of the select is received: the select picks
\* at random among the ready cases
PubFairness == \A m \in PubMsgs : WF_vars(PubHandleOf(m))

SpecPub == PubInit /\ [][PubNext]_vars /\ PubFairness

\* ------------------------------------------------------------- properties
Registered(d) == dispatchers[GetID(d)] = d

\* the subscriptions of a set that belong to an ID and match an event
Matching(ss, id, e) == { s \in ss : s.DispatcherID = id /\ MatchEvent(s, e) }

\* how many times a value occurs in a sequence
Occurrences(x, sq) == Cardinality({ i \in 1..Len(sq) : sq[i] = x })

\* C1: once the hub loop has handled unregister(D), the dispatcher map has no
\* entry for D's ID and the mapper holds no subscription of that ID, whether
\* or not D was registered before.
UnregisterLeavesNothing ==
  last.op = "unregister" =>
    /\ dispatchers[GetID(last.msg.disp)] = NoDisp
    /\ \A s \in subs : s.DispatcherID # GetID(last.msg.disp)

UnregisterOfUnknownWithSubs ==
  /\ last.op = "unregister"
  /\ last.before[GetID(last.msg.disp)] = NoDisp
  /\ \E s \in last.subsBefore : s.DispatcherID = GetID(last.msg.disp)

\* C2: registering a dispatcher whose ID is already in the map changes
\* nothing: the map keeps its size and the dispatcher registered first; a new
\* ID gets exactly its own entry, and every entry sits under its own ID.
RegisterExistingIsNoOp ==
  /\ \A i \in IDs : dispatchers[i] # NoDisp => GetID(dispatchers[i]) = i
  /\ last.op = "register" =>
       LET id == GetID(last.msg.disp)
       IN IF last.before[id] # NoDisp
            THEN dispatchers = last.before
            ELSE dispatchers = [last.before EXCEPT ![id] = last.msg.disp]

RegisterSecondObjectSameID ==
  /\ last.op = "register"
  /\ last.before[GetID(last.msg.disp)] # NoDisp
  /\ last.before[GetID(last.msg.disp)] # last.msg.disp

\* C3: what a broadcast pushes to a registered dispatcher D holds each event
\* E of the batch once per subscription of D that matches E (per occurrence
\* of E in the batch): n matching subscriptions give n copies, none gives none.
OncePerMatchingSubscription ==
  last.op = "broadcast" =>
    \A d \in Disp : Registered(d) =>
      \A e \in Events :
        Occurrences(e, last.pushed[d]) =
          Occurrences(e, last.msg.batch)
            * Cardinality(Matching(last.subsBefore, GetID(d), e))

TwoCopiesForTwoSubscriptions ==
  /\ last.op = "broadcast"
  /\ \E d \in Disp, e \in Events :
       /\ Registered(d)
       /\ Cardinality(Matching(last.subsBefore, GetID(d), e)) = 2
       /\ Occurrences(e, last.msg.batch) = 1
       /\ Occurrences(e, last.pushed[d]) = 2

\* C4: every event a broadcast pushes to D was matched by a subscription of
\* D's ID in the snapshot of that broadcast, and D was in the dispatcher map;
\* a subscription whose ID is not in the map causes no push, and the
\* dispatchers that are in the map still get theirs.
PushedOnlyIfMatchedAndRegistered ==
  last.op = "broadcast" =>
    \A d \in Disp :
      /\ last.pushed[d] # <<>> =>
           /\ Registered(d)
           /\ \A i \in 1..Len(last.pushed[d]) :
                Matching(last.subsBefore, GetID(d), last.pushed[d][i]) # {}
      /\ (/\ Registered(d)
          /\ \E i \in 1..Len(last.msg.batch) :
               Matching(last.subsBefore, GetID(d), last.msg.batch[i]) # {})
           => last.pushed[d] # <<>>

SkippedMissingDispatcher ==
  /\ last.op = "broadcast"
  /\ \E s \in last.subsBefore, i \in 1..Len(last.msg.batch) :
       /\ dispatchers[s.DispatcherID] = NoDisp
       /\ MatchEvent(s, last.msg.batch[i])
  /\ \E d \in Disp : last.pushed[d] # <<>>

\* n copies of an event
RECURSIVE Copies(_, _)
Copies(e, n) == IF n = 0 THEN <<>> ELSE <<e>> \o Copies(e, n - 1)

\* the events of a batch in order, each once per matching subscription of an ID
RECURSIVE InBatchOrder(_, _, _)
InBatchOrder(batch, ss, id) ==
  IF batch = <<>> THEN <<>>
  ELSE Copies(Head(batch), Cardinality(Matching(ss, id, Head(batch))))
         \o InBatchOrder(Tail(batch), ss, id)

\* p is made of elements of b, taken in b's order, each any number of times
RECURSIVE OrderedWithin(_, _)
OrderedWithin(p, b) ==
  IF p = <<>> THEN TRUE
  ELSE IF b = <<>> THEN FALSE
  ELSE \/ Head(p) = Head(b) /\ OrderedWithin(Tail(p), b)
       \/ OrderedWithin(p, Tail(b))

\* C5: what a broadcast pushes to D is the batch's events in the batch's
\* order, each repeated consecutively once per matching subscription of D.
BatchOrderPreserved ==
  last.op = "broadcast" =>
    \A d \in Disp :
      /\ OrderedWithin(last.pushed[d], last.msg.batch)
      /\ Registered(d) =>
           last.pushed[d] = InBatchOrder(last.msg.batch, last.subsBefore, GetID(d))

TwoEventsInOrderWithRepeat ==
  /\ last.op = "broadcast"
  /\ \E d \in Disp :
       /\ Len(last.pushed[d]) = 3
       /\ last.pushed[d][1] = last.pushed[d][2]
       /\ last.pushed[d][2] # last.pushed[d][3]

\* C6: after Close has returned, no Broadcast call (blocked on the channel at
\* that time, or started later) makes the hub call PushEvents on a dispatcher.
NoPushAfterClose ==
  ~(/\ last.op = "broadcast"
    /\ last.afterClose
    /\ \E d \in Disp : last.pushed[d] # <<>>)

\* C7: the mapper holds no subscription for an ID that is not in the
\* dispatcher map.
NoSubscriptionWithoutDispatcher ==
  \A s \in subs : dispatchers[s.DispatcherID] # NoDisp

\* a registered dispatcher with a subscription of the stream's type or ALL
WantsStream(d, type) ==
  /\ Registered(d)
  /\ \E s \in subs : s.DispatcherID = GetID(d) /\ s.entry.eventType \in {type, "ALL"}

\* C9: a RevertBlock (a FinalizedBlock) is routed to every registered
\* dispatcher that has a subscription of type REVERT_EVENTS (FINALIZED_EVENTS)
\* or ALL, and to no other.
RevertAndFinalizedRouted ==
  /\ last.op = "revert" =>
       last.routed = { d \in Disp : WantsStream(d, "REVERT_EVENTS") }
  /\ last.op = "finalized" =>
       last.routed = { d \in Disp : WantsStream(d, "FINALIZED_EVENTS") }

\* C10: a send made once Close has cancelled the hub returns to its caller
\* (with an error); it is not left on a channel that no loop reads any more.
SendAfterCloseReturns ==
  ~(/\ last.op = "send"
    /\ last.afterClose
    /\ last.msg \in inflight
    /\ \A l \in Loops : loopPc[l] # "select")

\* some event of the handled batch matches a subscription of the dispatcher
Matched(d) ==
  \E i \in 1..Len(last.msg.batch) :
    Matching(last.subsBefore, GetID(d), last.msg.batch[i]) # {}

\* a broadcast leaves the loop at its select, every dispatcher found full has
\* its signal on the way, and every registered dispatcher with a match is pushed
OthersServed ==
  last.op = "broadcast" =>
    /\ loopPc[last.loop] = "select"
    /\ \A d \in Disp : last.pushed[d] # <<>> /\ d \in last.full => Signal(d) \in inflight
    /\ \A d \in Disp : Registered(d) /\ Matched(d) => last.pushed[d] # <<>>

\* C8: a dispatcher whose queue is full does not hold up the hub or the
\* others: the broadcast still pushes to every other registered dispatcher
\* with a match (in that batch and in every later one), the loop is back at
\* its select, and the slow dispatcher's unregister signal is handled, so it
\* ends up out of the map - unless the hub is closed first.
SlowDispatcherUnregisteredWhileRunning ==
  /\ []OthersServed
  /\ \A d \in Disp : (Signal(d) \in inflight) ~> (~Registered(d) \/ closeCalled)

\* C8 as stated: a dispatcher found full while the hub runs ends up
\* unregistered in every case
SlowDispatcherUnregistered ==
  /\ []OthersServed
  /\ \A d \in Disp : (Signal(d) \in inflight /\ ~closeCalled) ~> ~Registered(d)

OneFullOtherServed ==
  /\ last.op = "broadcast"
  /\ ~last.afterClose
  /\ last.full = {"d1"}
  /\ Signal("d1") \in inflight
  /\ Registered("d2")
  /\ last.pushed["d2"] # <<>>

\* C11: handling unregister(D) for a registered D ends with D.close(): a
\* dispatcher the hub has just unregistered has been closed by it.
UnregisteredIsClosed ==
  (/\ last.op = "unregister"
   /\ last.before[GetID(last.msg.disp)] = last.msg.disp)
    => /\ dispatchers[GetID(last.msg.disp)] = NoDisp
       /\ last.msg.disp \in last.closed

\* C12: when Close has returned on a started hub, and when the loop has
\* returned, close() has run on every dispatcher that was in the map.
ShutdownClosesDispatchers ==
  (\/ last.op = "close" /\ cancelFunc # 0
   \/ last.op = "stop")
    => \A i \in IDs : last.before[i] # NoDisp => last.before[i] \in last.closed

\* C13: a decoding topic with a version the table has no data processor for
\* fails with ErrInvalidPayloadVersion and calls no data processor.
UnknownVersionFailsWithVersionError ==
  (phLast.topic \in DecodingTopics /\ phLast.version \notin phLast.table)
    => /\ phLast.err = ErrInvalidPayloadVersion
       /\ phLast.calls = <<>>

\* C14: a topic that is not one of the seven returns no error and calls no
\* data processor, whatever the payload and the version; the table is as it
\* was and the next frame is processed as any frame is.
UnknownTopicIgnored ==
  /\ dp = phLast.table \/ phLast = NoCall
  /\ phLast.topic \in OfferedTopics \ Topics
       => phLast.err = NoErr /\ phLast.calls = <<>>
  /\ (/\ phLast.afterUnknown
      /\ phLast.topic \in DecodingTopics
      /\ phLast.version \in dp)
       => /\ Len(phLast.calls) = 1
          /\ phLast.calls[1] = [version |-> phLast.version, method |-> phLast.topic,
                                data |-> phLast.payload]

UnknownTopicUnknownVersion ==
  /\ phLast.topic = "Settings"
  /\ phLast.version \notin dp
  /\ phLast.err = NoErr
  /\ phLast.afterUnknown

\* C15: a stream whose exchange name is empty is disabled: no Publish for
\* its messages; a message of a stream with a name is published to that
\* stream's own exchange and to no other, also after a disabled stream's
\* message.
EmptyExchangeDisablesStream ==
  pubLast.stream # None =>
    /\ cfg[pubLast.stream] = "" => pubLast.calls = <<>>
    /\ \A i \in 1..Len(pubLast.calls) :
         /\ pubLast.calls[i].exchange = cfg[pubLast.stream]
         /\ pubLast.calls[i].exchange # ""
         /\ pubLast.calls[i].body = Marshal([stream |-> pubLast.stream, body |-> pubLast.body])
    /\ (cfg[pubLast.stream] # "" /\ pubLast.err # ErrMarshal) => Len(pubLast.calls) = 1

OtherStreamPublishedAfterDisabled ==
  /\ cfg.events = ""
  /\ cfg.revert # ""
  /\ pubLast.afterSkipped
  /\ pubLast.stream = "revert"
  /\ Len(pubLast.calls) = 1
  /\ pubLast.calls[1].exchange = "revert_events"

\* the last message was handled with at most one Publish call, and the loop
\* is still running
AtMostOnePublish ==
  /\ Len(pubLast.calls) <= 1
  /\ pubLast.err = ErrMarshal => pubLast.calls = <<>>
  /\ pubLast.running

\* C16: each message the publisher loop receives causes at most one Publish
\* call, an error (marshal or Publish) is dropped without a second call, and
\* the loop goes on: every message offered on any of the three streams after
\* an error is received, and published as any message is.
PublishAtMostOnceAndGoOn ==
  /\ []AtMostOnePublish
  /\ [](pubLast.afterError /\ cfg[pubLast.stream] # "" /\ pubLast.err # ErrMarshal
          => Len(pubLast.calls) = 1)
  /\ \A m \in PubMsgs : (m \in pubIn /\ pubLast.err # NoErr) ~> (m \notin pubIn)

PublishedAfterError ==
  /\ pubLast.afterError
  /\ pubLast.err = NoErr
  /\ Len(pubLast.calls) = 1

\* C17: the mapper is written from the hub loop only: no Subscribe call
\* changes the mapper while the loop is inside handleBroadcast, between its
\* snapshot and its pushes.
MapperWrittenByLoopOnly ==
  ~(/\ last.op = "subscribe"
    /\ subs # last.subsBefore
    /\ \E l \in Loops : loopPc[l] = "matching" /\ work[l].snapshot # subs)

\* C18: once Close is called on a running hub the loop returns in the end,
\* producers offering messages or not; a loop that has returned stays so and
\* handles nothing more.
LoopReturnsAfterClose ==
  /\ \A l \in Loops :
       (last.op = "close" /\ cancelFunc = l /\ loopPc[l] = "select")
         ~> (loopPc[l] = "stopped")
  /\ [][\A l \in Loops :
          loopPc[l] = "stopped" => loopPc'[l] = "stopped" /\ last'.loop # l]_vars

StoppedWithSenderWaiting ==
  /\ last.op = "stop"
  /\ loopPc[last.loop] = "stopped"
  /\ Callers(inflight) # {}

\* C19: the lifecycle only moves forward: once Close has cancelled a loop no
\* later loop is started (a Run after Close starts nothing), and a Close
\* before Run cancels nothing.
LifecycleOnlyForward ==
  /\ \A l, k \in Loops : (l \in ctxDone /\ k > l) => loopPc[k] = "none"
  /\ (last.op = "close" /\ cancelFunc = 0) => ctxDone = {}

\* C20: at most one goroutine is in run, so no two handlers run at once, and
\* a Close leaves no started loop without its cancellation.
OneLoopOneClose ==
  /\ Cardinality(Alive) <= 1
  /\ last.op = "close" => \A l \in Loops : loopPc[l] # "none" => l \in ctxDone

\* C21: the broadcasts are handled one after the other, in the order of the
\* calls: when the hub starts on a batch (the caller before it has returned),
\* no handleBroadcast of an earlier batch is still before its pushes.
HandledOneAfterTheOther ==
  last.op = "snapshot" =>
    \A k \in Loops : k # last.loop => loopPc[k] # "matching"

\* the data processor method that corresponds to a decoding topic
Corresponding(topic) ==
  CASE topic = "SaveBlock" -> "SaveBlock"
    [] topic = "RevertIndexedBlock" -> "RevertIndexedBlock"
    [] topic = "FinalizedBlock" -> "FinalizedBlock"

\* C22: a decoding topic with a version of the table makes one call, of the
\* topic's own method, on that version's data processor and on no other, and
\* returns what the method returned; the four other registered topics return
\* no error and call nothing, for every version.
DecodingTopicCallsItsMethod ==
  /\ (phLast.topic \in DecodingTopics /\ phLast.version \in phLast.table) =>
       /\ phLast.calls = <<[version |-> phLast.version,
                            method |-> Corresponding(phLast.topic),
                            data |-> phLast.payload]>>
       /\ phLast.err = phLast.returned
  /\ phLast.topic \in Topics \ DecodingTopics =>
       /\ phLast.calls = <<>>
       /\ phLast.err = NoErr

FinalizedBlockErrorReturned ==
  /\ phLast.topic = "FinalizedBlock"
  /\ phLast.table = {"v0", "v1"}
  /\ phLast.version = "v1"
  /\ phLast.returned = ErrDataProcessor
  /\ phLast.err = ErrDataProcessor
  /\ Len(phLast.calls) = 1

\* C23: a handled broadcast makes at most one PushEvents call per
\* dispatcher: one, with all its matched events of the batch, for each
\* registered dispatcher with a match, none (and never an empty batch) for
\* the others; the dispatcher map and the subscriptions are as before.
OnePushPerMatchedDispatcher ==
  last.op = "broadcast" =>
    /\ \A c \in last.calls : c.events # <<>> /\ Registered(c.disp)
    /\ \A c1, c2 \in last.calls : c1.disp = c2.disp => c1 = c2
    /\ \A d \in Disp :
         Registered(d) =>
           IF Matched(d)
             THEN \E c \in last.calls :
                    /\ c.disp = d
                    /\ c.events = InBatchOrder(last.msg.batch, last.subsBefore, GetID(d))
             ELSE \A c \in last.calls : c.disp # d
    /\ dispatchers = last.before
    /\ subs = last.subsBefore

OneCallOneSkipped ==
  /\ last.op = "broadcast"
  /\ Registered("d1")
  /\ Registered("d2")
  /\ \E s \in last.subsBefore : s.DispatcherID = "id2"
  /\ ~Matched("d2")
  /\ Cardinality(last.calls) = 1
  /\ \E c \in last.calls : c.disp = "d1" /\ Len(c.events) = 2

\* the subscriptions of a set that do not belong to an ID
NotOf(ss, id) == { s \in ss : s.DispatcherID # id }

\* C24: unregister is idempotent and total: handling unregister(D) again in
\* the state it has left changes nothing; for an ID that was not registered
\* the map is as before and the ID's subscriptions are gone all the same;
\* the entries and the subscriptions of every other ID are as before.
UnregisterIdempotentAndTotal ==
  last.op = "unregister" =>
    LET d == last.msg.disp
        id == GetID(d)
        again == unregisterDispatcher(dispatchers, subs, d)
    IN /\ again.dispatchers = dispatchers
       /\ again.subs = subs
       /\ last.before[id] = NoDisp =>
            /\ dispatchers = last.before
            /\ \A s \in subs : s.DispatcherID # id
       /\ \A i \in IDs \ {id} : dispatchers[i] = last.before[i]
       /\ NotOf(subs, id) = NotOf(last.subsBefore, id)
       /\ subs \subseteq last.subsBefore

UnregisterUnknownBesideRegistered ==
  /\ last.op = "unregister"
  /\ last.msg.disp = "d1"
  /\ last.before["id1"] = NoDisp
  /\ \E s \in last.subsBefore : s.DispatcherID = "id1"
  /\ dispatchers["id2"] = "d2"
  /\ \E s \in subs : s.DispatcherID = "id2"
====
